---- MODULE Spec2Model ----
(***************************************************************************)
(* RBAC gateway in front of DynamoDB: the PartiQL client                   *)
(* (auth-api/auth_cli.py), the AWS-CLI-style client (auth-cli/main.py) and *)
(* the HTTP proxy (auth-api/main.py).                                      *)
(*                                                                         *)
(* Text is modelled as a sequence of one-character strings, so that        *)
(* lower(), upper(), strip(), split() and the quote-aware tokenizer are    *)
(* computed character by character as Python computes them.                *)
(***************************************************************************)
EXTENDS Integers, Sequences, FiniteSets, TLC

VARIABLES
    program,        \* which of the three programs runs: "auth_cli", "aws_cli", "api"
    pc,             \* where the program is
    roles_table,    \* the role store
    role_names,     \* main's role_names
    permissions,    \* main's permissions, as a set
    lookup_raised,  \* what the role lookups of the resolution raised
    command,        \* the line read by the last loop iteration
    parse_result,   \* its parse result: <<>> is None
    decision,       \* "none", "Allow" or "Deny"
    executed,       \* the store calls made for it
    printed,        \* what was reported for it
    request,        \* the last HTTP request
    response        \* its status code

vars == <<program, pc, roles_table, role_names, permissions, lookup_raised,
          command, parse_result, decision, executed, printed, request, response>>

-----------------------------------------------------------------------------
(* Python str primitives *)

Lowers == <<"a","b","c","d","e","f","g","h","i","j","k","l","m",
            "n","o","p","q","r","s","t","u","v","w","x","y","z">>

Uppers == <<"A","B","C","D","E","F","G","H","I","J","K","L","M",
            "N","O","P","Q","R","S","T","U","V","W","X","Y","Z">>

\* list.index: the first position of c in seq, 0 where Python raises ValueError
IndexIn(seq, c) == IF \E i \in 1..Len(seq) : seq[i] = c
                   THEN CHOOSE i \in 1..Len(seq) : seq[i] = c /\ \A k \in 1..(i - 1) : seq[k] # c
                   ELSE 0

LowerOf == [c \in {Uppers[i] : i \in 1..26} |-> Lowers[IndexIn(Uppers, c)]]

UpperOf == [c \in {Lowers[i] : i \in 1..26} |-> Uppers[IndexIn(Lowers, c)]]

LowerChar(c) == IF c \in DOMAIN LowerOf THEN LowerOf[c] ELSE c

UpperChar(c) == IF c \in DOMAIN UpperOf THEN UpperOf[c] ELSE c

Lower(s) == [i \in 1..Len(s) |-> LowerChar(s[i])]

Upper(s) == [i \in 1..Len(s) |-> UpperChar(s[i])]

\* str.capitalize(): first character upper-cased, the rest lower-cased
Capitalize(s) == [i \in 1..Len(s) |-> IF i = 1 THEN UpperChar(s[i]) ELSE LowerChar(s[i])]

\* whitespace of str.strip(), str.split(), re \s and shlex
Whitespace == {" ", "\t"}

RECURSIVE LStripSet(_, _)
LStripSet(s, chars) == IF s # <<>> /\ Head(s) \in chars THEN LStripSet(Tail(s), chars) ELSE s

RECURSIVE RStripSet(_, _)
RStripSet(s, chars) ==
    IF s # <<>> /\ s[Len(s)] \in chars THEN RStripSet(SubSeq(s, 1, Len(s) - 1), chars) ELSE s

\* str.strip(chars)
StripSet(s, chars) == RStripSet(LStripSet(s, chars), chars)

\* str.strip()
Strip(s) == StripSet(s, Whitespace)

\* s.startswith(prefix)
StartsWith(s, prefix) == Len(s) >= Len(prefix) /\ SubSeq(s, 1, Len(prefix)) = prefix

\* s.replace(old, new) for single characters
Replace(s, old, new) == [i \in 1..Len(s) |-> IF s[i] = old THEN new ELSE s[i]]

\* s.split(sep) for a single-character separator: empty fields are kept
RECURSIVE SplitOn(_, _, _)
SplitOn(s, sep, cur) ==
    IF s = <<>> THEN <<cur>>
    ELSE IF Head(s) = sep THEN <<cur>> \o SplitOn(Tail(s), sep, <<>>)
    ELSE SplitOn(Tail(s), sep, Append(cur, Head(s)))

\* s.split(): fields between runs of whitespace, no empty fields
RECURSIVE SplitFields(_, _)
SplitFields(s, cur) ==
    IF s = <<>> THEN (IF cur = <<>> THEN <<>> ELSE <<cur>>)
    ELSE IF Head(s) \in Whitespace
         THEN (IF cur = <<>> THEN <<>> ELSE <<cur>>) \o SplitFields(Tail(s), <<>>)
         ELSE SplitFields(Tail(s), Append(cur, Head(s)))

StrSplit(s) == SplitFields(s, <<>>)

\* re.split(r'\s+', s): like split() on a stripped string, but "" gives ['']
ReSplitWs(s) == IF s = <<>> THEN << <<>> >> ELSE
    LET lead  == IF Head(s) \in Whitespace THEN << <<>> >> ELSE <<>>
        trail == IF s[Len(s)] \in Whitespace THEN << <<>> >> ELSE <<>>
    IN  lead \o StrSplit(s) \o trail

\* ''.join(parts)
RECURSIVE Concat(_)
Concat(parts) == IF parts = <<>> THEN <<>> ELSE Head(parts) \o Concat(Tail(parts))

\* ' '.join(words)
RECURSIVE Words(_)
Words(ws) == IF ws = <<>> THEN <<>>
             ELSE IF Len(ws) = 1 THEN ws[1]
             ELSE ws[1] \o <<" ">> \o Words(Tail(ws))

Range(f) == {f[i] : i \in DOMAIN f}

-----------------------------------------------------------------------------
(* Vocabulary: actions, table names, permission strings *)

read == <<"r","e","a","d">>

write == <<"w","r","i","t","e">>

update == <<"u","p","d","a","t","e">>

delete == <<"d","e","l","e","t","e">>

Actions == {read, write, update, delete}

customer == <<"c","u","s","t","o","m","e","r">>

customers == <<"c","u","s","t","o","m","e","r","s">>

users == <<"u","s","e","r","s">>

\* "<resource>:<action>"
Perm(resource, action) == resource \o <<":">> \o action

\* "<resource>:*"
WildPerm(resource) == resource \o <<":", "*">>

\* "*"
GlobalWildcard == <<"*">>

-----------------------------------------------------------------------------
(* The role store (DynamoDB table 'roles') as the clients see it after     *)
(* deserialization.  The 'permissions' attribute of an item is a list of   *)
(* strings (type L), or, in a corrupt role definition, a single string     *)
(* (type S) or a number (type N); an item may also lack the attribute.     *)

ListAttr(l) == [type |-> "L", val |-> l]

StrAttr(s) == [type |-> "S", val |-> s]

NumAttr == [type |-> "N", val |-> <<>>]

NoAttr == [type |-> "absent", val |-> <<>>]

RolesSeed ==
    [ reader  |-> ListAttr(<<Perm(customer, read)>>),
      writer  |-> ListAttr(<<Perm(customer, read), Perm(customer, write),
                             Perm(customer, update)>>),
      owner   |-> ListAttr(<<WildPerm(customer)>>),
      admin   |-> ListAttr(<<GlobalWildcard>>),
      corrupt |-> StrAttr(WildPerm(customer)),
      broken  |-> NumAttr,
      bare    |-> NoAttr ]

\* role names a user item may carry; "ghost" names no stored role
RoleNames == DOMAIN RolesSeed \cup {"ghost"}

\* role_data.get('permissions', [])
PermissionsOf(store, role_name) ==
    IF store[role_name].type = "absent" THEN ListAttr(<<>>) ELSE store[role_name]

\* a faulty variant of set.update, which keeps the permissions of the last
\* role only; C8_ResolutionIsUnion tells it apart
UpdateWith_overwrite(all_permissions, attr) ==
    IF attr.type = "L" THEN Range(attr.val)
    ELSE { <<attr.val[i]>> : i \in 1..Len(attr.val) }

\* set.update(iterable): a list adds its elements, a str adds its characters
UpdateWith(all_permissions, attr) ==
    IF attr.type = "L" THEN all_permissions \cup Range(attr.val)
    ELSE all_permissions \cup { <<attr.val[i]>> : i \in 1..Len(attr.val) }

\* get_permissions_for_roles: the loop from role number i on.  fail_at is
\* the number of the lookup for which the store raises ClientError (0: none).
\* A ClientError ends the loop and the permissions gathered so far are
\* returned; a non-iterable 'permissions' attribute raises TypeError, which
\* the function does not catch.
RECURSIVE ResolveFrom(_, _, _, _, _)
ResolveFrom(store, names, i, fail_at, all_permissions) ==
    IF i > Len(names) THEN [raised |-> "none", perms |-> all_permissions]
    ELSE IF i = fail_at THEN [raised |-> "ClientError", perms |-> all_permissions]
    ELSE IF names[i] \notin DOMAIN store
         THEN ResolveFrom(store, names, i + 1, fail_at, all_permissions)
    ELSE IF PermissionsOf(store, names[i]).type = "N"
         THEN [raised |-> "TypeError", perms |-> all_permissions]
    ELSE ResolveFrom(store, names, i + 1, fail_at,
                     UpdateWith(all_permissions, PermissionsOf(store, names[i])))

get_permissions_for_roles(store, names, fail_at) == ResolveFrom(store, names, 1, fail_at, {})

-----------------------------------------------------------------------------
(* The decision *)

\* a faulty variant of the decision, whose resource wildcard also covers
\* every table whose name starts with the resource;
\* C20_WildcardIsResourceExact tells it apart
verificar_permissao_cli_prefix(perms, table, action) ==
    LET required_permission == Perm(Lower(table), action)
    IN  IF GlobalWildcard \in perms THEN TRUE
        ELSE IF required_permission \in perms THEN TRUE
        ELSE IF \E n \in 1..Len(table) : WildPerm(SubSeq(table, 1, n)) \in perms THEN TRUE
        ELSE FALSE

verificar_permissao_cli(perms, table, action) ==
    LET required_permission == Perm(Lower(table), action)
        table_wildcard      == WildPerm(table)
    IN  IF GlobalWildcard \in perms THEN TRUE
        ELSE IF required_permission \in perms THEN TRUE
        ELSE IF table_wildcard \in perms THEN TRUE
        ELSE FALSE

-----------------------------------------------------------------------------
(* Statement dialect: analisar_partiql *)

SELECT == <<"S","E","L","E","C","T">>

INSERT == <<"I","N","S","E","R","T">>

UPDATE == <<"U","P","D","A","T","E">>

DELETE == <<"D","E","L","E","T","E">>

FROM == <<"F","R","O","M">>

INTO == <<"I","N","T","O">>

\* tokens[n] of Python is tokens[n + 1] here.  token.strip('"').strip("'")
Unquote(token) == StripSet(StripSet(token, {"\""}), {"'"})

\* a faulty variant of the lookup of the companion keyword, which takes the
\* last token as the table when the keyword is missing;
\* C12_MissingKeywordIsParseFailure tells it apart
TableAfter_lenient(tokens, kw, act, lowered) ==
    IF IndexIn(tokens, kw) = 0
    THEN [raised |-> "none", value |-> <<act, Unquote(tokens[Len(tokens)])>>]
    ELSE IF IndexIn(tokens, kw) + 1 > Len(tokens)
         THEN [raised |-> "IndexError", value |-> <<>>]
    ELSE LET t == Unquote(tokens[IndexIn(tokens, kw) + 1])
         IN  [raised |-> "none", value |-> <<act, IF lowered THEN Lower(t) ELSE t>>]

\* The table name after the companion keyword kw: tokens.index(kw) raises
\* ValueError (caught: None) and tokens[index + 1] raises IndexError (not caught).
TableAfter(tokens, kw, act, lowered) ==
    IF IndexIn(tokens, kw) = 0 THEN [raised |-> "ValueError", value |-> <<>>]
    ELSE IF IndexIn(tokens, kw) + 1 > Len(tokens)
         THEN [raised |-> "IndexError", value |-> <<>>]
    ELSE LET t == Unquote(tokens[IndexIn(tokens, kw) + 1])
         IN  [raised |-> "none", value |-> <<act, IF lowered THEN Lower(t) ELSE t>>]

analisar_partiql(query) ==
    LET query_upper  == Upper(Strip(query))
        tokens       == ReSplitWs(query_upper)
        action_token == tokens[1]
    IN  IF action_token = SELECT THEN TableAfter(tokens, FROM, read, TRUE)
        ELSE IF action_token = INSERT THEN TableAfter(tokens, INTO, write, FALSE)
        ELSE IF action_token = UPDATE
             THEN IF Len(tokens) < 2 THEN [raised |-> "IndexErrorCaught", value |-> <<>>]
                  ELSE [raised |-> "none", value |-> <<update, Unquote(tokens[2])>>]
        ELSE IF action_token = DELETE THEN TableAfter(tokens, FROM, delete, FALSE)
        ELSE [raised |-> "unsupported", value |-> <<>>]

-----------------------------------------------------------------------------
(* Verb dialect: shlex.split, to_camel_case, json.loads, analisar_aws_cli_comando *)

Quotes == {"'", "\""}

\* The least position j >= i of s holding a character of chars, Len(s) + 1
\* if there is none.
NextIn(s, i, chars) ==
    IF \E j \in i..Len(s) : s[j] \in chars
    THEN CHOOSE j \in i..Len(s) : s[j] \in chars /\ \A k \in i..(j - 1) : s[k] \notin chars
    ELSE Len(s) + 1

Lexer(token, quoted, out) == [token |-> token, quoted |-> quoted, out |-> out]

\* shlex.shlex(posix=True, whitespace_split=True).read_token, repeated to the
\* end of the text, from position i on.  state is 'a' (in a word, or between
\* tokens with an empty unquoted token) or a quote character (inside quotes);
\* the escape state is the character after a backslash.  read_token goes
\* character by character; here each run of characters that the state treats
\* alike is taken at once.  An open quote or a pending escape at the end of
\* the text raises ValueError.
RECURSIVE ShlexRead(_, _, _, _)
ShlexRead(s, i, state, x) ==
    IF state = "a" THEN
        LET j    == NextIn(s, i, Whitespace \cup Quotes \cup {"\\"})
            word == x.token \o SubSeq(s, i, j - 1)
        IN  IF j > Len(s)
            THEN [raised |-> "none",
                  tokens |-> IF word # <<>> \/ x.quoted THEN Append(x.out, word) ELSE x.out]
            ELSE IF s[j] \in Whitespace
            THEN IF word # <<>> \/ x.quoted
                 THEN ShlexRead(s, j + 1, "a", Lexer(<<>>, FALSE, Append(x.out, word)))
                 ELSE ShlexRead(s, j + 1, "a", Lexer(<<>>, FALSE, x.out))
            ELSE IF s[j] \in Quotes
            THEN ShlexRead(s, j + 1, s[j], Lexer(word, x.quoted, x.out))
            ELSE IF j + 1 > Len(s) THEN [raised |-> "ValueError", tokens |-> <<>>]
            ELSE ShlexRead(s, j + 2, "a", Lexer(Append(word, s[j + 1]), x.quoted, x.out))
    ELSE IF state = "'" THEN
        LET j == NextIn(s, i, {"'"})
        IN  IF j > Len(s) THEN [raised |-> "ValueError", tokens |-> <<>>]
            ELSE ShlexRead(s, j + 1, "a", Lexer(x.token \o SubSeq(s, i, j - 1), TRUE, x.out))
    ELSE \* state = '"'
        LET j    == NextIn(s, i, {"\"", "\\"})
            text == x.token \o SubSeq(s, i, j - 1)
        IN  IF j > Len(s) THEN [raised |-> "ValueError", tokens |-> <<>>]
            ELSE IF s[j] = "\"" THEN ShlexRead(s, j + 1, "a", Lexer(text, TRUE, x.out))
            ELSE IF j + 1 > Len(s) THEN [raised |-> "ValueError", tokens |-> <<>>]
            ELSE IF s[j + 1] \in {"\\", "\""}
            THEN ShlexRead(s, j + 2, state, Lexer(Append(text, s[j + 1]), TRUE, x.out))
            ELSE ShlexRead(s, j + 2, state, Lexer(text \o <<"\\", s[j + 1]>>, TRUE, x.out))

shlex_split(s) == ShlexRead(s, 1, "a", Lexer(<<>>, FALSE, <<>>))

\* split_cli_command: ValueError gives []
split_cli_command(cmd) ==
    IF shlex_split(cmd).raised = "ValueError" THEN <<>> ELSE shlex_split(cmd).tokens

RECURSIVE CapitalizeAll(_)
CapitalizeAll(components) ==
    IF components = <<>> THEN <<>>
    ELSE Capitalize(Head(components)) \o CapitalizeAll(Tail(components))

to_camel_case(snake_str) == CapitalizeAll(SplitOn(snake_str, "_", <<>>))

\* json.loads on the JSON texts the commands of this model carry: objects with
\* string keys, strings without escapes, and digit runs, with optional
\* whitespace between the tokens.  JsonEnd gives the position after the value
\* that starts at i, or 0 where the decoder raises JSONDecodeError.
Digits == {"0","1","2","3","4","5","6","7","8","9"}

RECURSIVE SkipWs(_, _)
SkipWs(s, i) == IF i <= Len(s) /\ s[i] \in Whitespace THEN SkipWs(s, i + 1) ELSE i

RECURSIVE SkipDigits(_, _)
SkipDigits(s, i) == IF i <= Len(s) /\ s[i] \in Digits THEN SkipDigits(s, i + 1) ELSE i

JsonStringEnd(s, i) ==
    IF i <= Len(s) /\ s[i] = "\"" /\ (\E j \in (i + 1)..Len(s) : s[j] = "\"")
    THEN 1 + CHOOSE j \in (i + 1)..Len(s) :
                 s[j] = "\"" /\ \A k \in (i + 1)..(j - 1) : s[k] # "\""
    ELSE 0

RECURSIVE JsonEnd(_, _), JsonMembersEnd(_, _)
JsonEnd(s, i0) ==
    LET i == SkipWs(s, i0) IN
    IF i > Len(s) THEN 0
    ELSE IF s[i] = "\"" THEN JsonStringEnd(s, i)
    ELSE IF s[i] \in Digits THEN SkipDigits(s, i)
    ELSE IF s[i] = "{"
         THEN IF SkipWs(s, i + 1) <= Len(s) /\ s[SkipWs(s, i + 1)] = "}"
              THEN SkipWs(s, i + 1) + 1
              ELSE JsonMembersEnd(s, i + 1)
    ELSE 0

JsonMembersEnd(s, i) ==
    LET k == JsonStringEnd(s, SkipWs(s, i))
        c == SkipWs(s, k)
        v == JsonEnd(s, c + 1)
        e == SkipWs(s, v)
    IN  IF k = 0 \/ c > Len(s) THEN 0
        ELSE IF s[c] # ":" \/ v = 0 \/ e > Len(s) THEN 0
        ELSE IF s[e] = "}" THEN e + 1
        ELSE IF s[e] = "," THEN JsonMembersEnd(s, e + 1)
        ELSE 0

IsJson(s) == JsonEnd(s, 1) # 0 /\ SkipWs(s, JsonEnd(s, 1)) = Len(s) + 1

\* the decoded value, written as its text without the insignificant whitespace
RECURSIVE Compact(_, _)
Compact(s, in_string) ==
    IF s = <<>> THEN <<>>
    ELSE IF Head(s) = "\"" THEN <<Head(s)>> \o Compact(Tail(s), ~in_string)
    ELSE IF Head(s) \in Whitespace /\ ~in_string THEN Compact(Tail(s), in_string)
    ELSE <<Head(s)>> \o Compact(Tail(s), in_string)

RawValue(value) == [type |-> "str", val |-> value]

\* try: json.loads(value)  except json.JSONDecodeError: value
JsonOrRaw(value) ==
    IF IsJson(value) THEN [type |-> "json", val |-> Compact(value, FALSE)]
    ELSE RawValue(value)

key == <<"k","e","y">>

item == <<"i","t","e","m">>

expression_attribute_names ==
    <<"e","x","p","r","e","s","s","i","o","n","_","a","t","t","r","i","b","u","t","e",
      "_","n","a","m","e","s">>

expression_attribute_values ==
    <<"e","x","p","r","e","s","s","i","o","n","_","a","t","t","r","i","b","u","t","e",
      "_","v","a","l","u","e","s">>

StructuredFlags == {key, item, expression_attribute_names, expression_attribute_values}

TableName == <<"T","a","b","l","e","N","a","m","e">>

\* a faulty variant of the entry assignment, which keeps the value of the
\* first pair when a flag is repeated; C16_PairsBecomeEntries tells it apart
Put_first(args_dict, k, v) ==
    [x \in DOMAIN args_dict \cup {k} |->
        IF x \in DOMAIN args_dict THEN args_dict[x] ELSE v]

\* args_dict[k] = v
Put(args_dict, k, v) ==
    [x \in DOMAIN args_dict \cup {k} |-> IF x = k THEN v ELSE args_dict[x]]

\* The while loop over command_tokens; Python's index i is i + 1 here.
RECURSIVE ParseArgs(_, _, _)
ParseArgs(command_tokens, i, args_dict) ==
    IF i > Len(command_tokens) THEN args_dict
    ELSE IF ~StartsWith(command_tokens[i], <<"-", "-">>)
         THEN ParseArgs(command_tokens, i + 1, args_dict)
    ELSE LET param_name_snake == Replace(LStripSet(command_tokens[i], {"-"}), "-", "_")
             param_name_camel == to_camel_case(param_name_snake)
         IN  IF i + 1 > Len(command_tokens) THEN args_dict
             ELSE ParseArgs(command_tokens, i + 2,
                      Put(args_dict, param_name_camel,
                          IF param_name_snake \in StructuredFlags
                          THEN JsonOrRaw(command_tokens[i + 1])
                          ELSE RawValue(command_tokens[i + 1])))

dynamodb == <<"d","y","n","a","m","o","d","b">>

get_item == <<"g","e","t","-","i","t","e","m">>

query == <<"q","u","e","r","y">>

scan == <<"s","c","a","n">>

put_item == <<"p","u","t","-","i","t","e","m">>

update_item == <<"u","p","d","a","t","e","-","i","t","e","m">>

delete_item == <<"d","e","l","e","t","e","-","i","t","e","m">>

batch_get_item == <<"b","a","t","c","h","-","g","e","t","-","i","t","e","m">>

batch_write_item == <<"b","a","t","c","h","-","w","r","i","t","e","-","i","t","e","m">>

AWS_CLI_ACTION_MAP ==
    [ v \in {get_item, query, scan, put_item, update_item, delete_item,
             batch_get_item, batch_write_item} |->
        IF v \in {get_item, query, scan, batch_get_item} THEN read
        ELSE IF v \in {put_item, batch_write_item} THEN write
        ELSE IF v = update_item THEN update
        ELSE delete ]

\* Returns <<>> for None, with the error that was printed, or
\* <<rbac_action, table_name, args_dict>>.
analisar_aws_cli_comando(cmd) ==
    LET command_tokens == split_cli_command(Strip(cmd)) IN
    IF Len(command_tokens) < 3 \/ Lower(command_tokens[1]) # dynamodb
    THEN [error |-> "syntax", value |-> <<>>]
    ELSE LET cli_action == Lower(command_tokens[2]) IN
         IF cli_action \notin DOMAIN AWS_CLI_ACTION_MAP
         THEN [error |-> "unsupported", value |-> <<>>]
         ELSE LET args_dict == ParseArgs(command_tokens, 3, <<>>) IN
              IF TableName \notin DOMAIN args_dict \/ args_dict[TableName].val = <<>>
              THEN [error |-> "table-name", value |-> <<>>]
              ELSE [error |-> "none",
                    value |-> <<AWS_CLI_ACTION_MAP[cli_action],
                                Lower(args_dict[TableName].val), args_dict>>]

-----------------------------------------------------------------------------
(* Authentication: validar_usuario_cli.  The answer of the 'users' lookup   *)
(* is an input: a ClientError, no item, or the stored item.                 *)

NoUser == [kind |-> "none", password |-> "", role_name |-> NoAttr]

UsersError == [kind |-> "ClientError", password |-> "", role_name |-> NoAttr]

UserItem(pw, attr) == [kind |-> "item", password |-> pw, role_name |-> attr]

\* a faulty variant of the authentication, which does not compare the
\* password; C23_FailedLoginEndsSession tells it apart
validar_usuario_cli_any_password(users_response, password) ==
    IF users_response.kind = "ClientError" THEN <<>>
    ELSE IF users_response.kind = "none" THEN <<>>
    ELSE IF users_response.role_name.type = "absent" THEN << <<>> >>
    ELSE IF users_response.role_name.type # "L" THEN << <<users_response.role_name.val>> >>
    ELSE <<users_response.role_name.val>>

\* <<>> is None, <<l>> is the list l
validar_usuario_cli(users_response, password) ==
    IF users_response.kind = "ClientError" THEN <<>>
    ELSE IF users_response.kind = "none" THEN <<>>
    ELSE IF users_response.password # password THEN <<>>
    ELSE IF users_response.role_name.type = "absent" THEN << <<>> >>
    ELSE IF users_response.role_name.type # "L" THEN << <<users_response.role_name.val>> >>
    ELSE <<users_response.role_name.val>>

-----------------------------------------------------------------------------
(* One iteration of main's loop, in each client *)

exit == <<"e","x","i","t">>

quit == <<"q","u","i","t">>

Report(kind, detail) == [kind |-> kind, detail |-> detail]

Call(method, table, arg) == [method |-> method, table |-> table, arg |-> arg]

Outcome(next_pc, parsed, dec, calls, reports) ==
    [pc |-> next_pc, parse_result |-> parsed, decision |-> dec,
     executed |-> calls, printed |-> reports]

execute_statement == <<"e","x","e","c","u","t","e","_","s","t","a","t","e","m","e","n","t">>

\* a faulty variant of the loop body, which sends the statement to the store
\* whatever the decision is; C2_ExecutedOnlyWhenAllowed tells it apart
partiql_iteration_unguarded(perms, line) ==
    IF Lower(Strip(line)) \in {exit, quit} THEN Outcome("done", <<>>, "none", <<>>, <<>>)
    ELSE IF Strip(line) = <<>> THEN Outcome("prompt", <<>>, "none", <<>>, <<>>)
    ELSE LET p == analisar_partiql(line) IN
         IF p.raised = "IndexError"
         THEN Outcome("crashed", <<>>, "none", <<>>, <<Report("Traceback", <<>>)>>)
         ELSE IF p.value = <<>>
         THEN Outcome("prompt", <<>>, "none", <<>>, <<Report(p.raised, <<>>)>>)
         ELSE LET action     == p.value[1]
                  table_name == p.value[2]
              IN  IF verificar_permissao_cli(perms, table_name, action)
                  THEN Outcome("prompt", p.value, "Allow",
                               <<Call(execute_statement, <<>>, line)>>,
                               <<Report("Autorizado", Perm(table_name, action))>>)
                  ELSE Outcome("prompt", p.value, "Deny",
                               <<Call(execute_statement, <<>>, line)>>,
                               <<Report("ERRO DE AUTORIZACAO", Perm(table_name, action))>>)

\* auth_cli.py, main: the body of `while True` for the line read
partiql_iteration(perms, line) ==
    IF Lower(Strip(line)) \in {exit, quit} THEN Outcome("done", <<>>, "none", <<>>, <<>>)
    ELSE IF Strip(line) = <<>> THEN Outcome("prompt", <<>>, "none", <<>>, <<>>)
    ELSE LET p == analisar_partiql(line) IN
         IF p.raised = "IndexError"
         THEN Outcome("crashed", <<>>, "none", <<>>, <<Report("Traceback", <<>>)>>)
         ELSE IF p.value = <<>>
         THEN Outcome("prompt", <<>>, "none", <<>>, <<Report(p.raised, <<>>)>>)
         ELSE LET action     == p.value[1]
                  table_name == p.value[2]
              IN  IF verificar_permissao_cli(perms, table_name, action)
                  THEN Outcome("prompt", p.value, "Allow",
                               <<Call(execute_statement, <<>>, line)>>,
                               <<Report("Autorizado", Perm(table_name, action))>>)
                  ELSE Outcome("prompt", p.value, "Deny", <<>>,
                               <<Report("ERRO DE AUTORIZACAO", Perm(table_name, action))>>)

\* the operations of the boto3 DynamoDB client that getattr can find
ClientMethods ==
    { Replace(v, "-", "_") : v \in DOMAIN AWS_CLI_ACTION_MAP \cup
                                   {<<"c","r","e","a","t","e","-","t","a","b","l","e">>, <<"u","p","d","a","t","e","-","t","a","b","l","e">>, <<"d","e","l","e","t","e","-","t","a","b","l","e">>,
                                    <<"d","e","s","c","r","i","b","e","-","t","a","b","l","e">>, <<"l","i","s","t","-","t","a","b","l","e","s">>, execute_statement} }

\* executar_aws_cli_comando: getattr raises AttributeError (caught) for a name
\* that is no client method, and then no call is made
executar_aws_cli_comando(cli_action, args) ==
    IF Replace(cli_action, "-", "_") \in ClientMethods
    THEN <<Call(Replace(cli_action, "-", "_"),
                IF TableName \in DOMAIN args THEN args[TableName].val ELSE <<>>, args)>>
    ELSE <<>>

\* auth-cli/main.py, main: the body of `while True` for the line read
aws_cli_iteration(perms, line) ==
    IF Lower(Strip(line)) \in {exit, quit} THEN Outcome("done", <<>>, "none", <<>>, <<>>)
    ELSE IF Strip(line) = <<>> THEN Outcome("prompt", <<>>, "none", <<>>, <<>>)
    ELSE LET p == analisar_aws_cli_comando(line) IN
         IF p.value = <<>>
         THEN Outcome("prompt", <<>>, "none", <<>>, <<Report(p.error, <<>>)>>)
         ELSE LET action     == p.value[1]
                  table_name == p.value[2]
                  args       == p.value[3]
                  cli_action == Lower(StrSplit(Strip(line))[2])
              IN  IF verificar_permissao_cli(perms, table_name, action)
                  THEN Outcome("prompt", p.value, "Allow",
                               executar_aws_cli_comando(cli_action, args),
                               <<Report("Autorizado", Perm(table_name, action))>>)
                  ELSE Outcome("prompt", p.value, "Deny", <<>>,
                               <<Report("ERRO DE AUTORIZACAO", Perm(table_name, action))>>)

-----------------------------------------------------------------------------
(* HTTP proxy: get_current_user, check_permission and the four endpoints *)

\* The JWT as jwt.decode sees it: well signed or not, with its "sub" (<<>> is
\* None) and its "role" claim, which login copies from the user item.
Token(valid, sub, role) == [valid |-> valid, sub |-> sub, role |-> role]

\* status 200 carries the UserToken; status 401 is credentials_exception
get_current_user(token) ==
    IF ~token.valid THEN [status |-> 401, role_name |-> ""]
    ELSE IF token.role.type = "L" /\ token.role.val # <<>>
         THEN IF token.sub = <<>> THEN [status |-> 401, role_name |-> ""]
              ELSE [status |-> 200, role_name |-> token.role.val[1]]
    ELSE IF token.role.type = "S"
         THEN IF token.sub = <<>> THEN [status |-> 401, role_name |-> ""]
              ELSE [status |-> 200, role_name |-> token.role.val]
    ELSE [status |-> 401, role_name |-> ""]

\* 200 stands for `return True`; 403 and 500 are the HTTPExceptions raised
check_permission(store, role_name, table_name, action, lookup_fails) ==
    LET permission_string == Perm(table_name, action) IN
    IF lookup_fails THEN 500
    ELSE IF role_name \notin DOMAIN store THEN 403
    ELSE LET perms == IF PermissionsOf(store, role_name).type = "L"
                      THEN Range(PermissionsOf(store, role_name).val)
                      ELSE {}
         IN  IF GlobalWildcard \in perms \/ permission_string \in perms THEN 200 ELSE 403

\* the endpoint of each HTTP method: the action it authorizes, the table
\* operation it performs
Endpoints ==
    [ GET    |-> [action |-> read,   op |-> <<"g","e","t","_","i","t","e","m">>],
      POST   |-> [action |-> write,  op |-> <<"p","u","t","_","i","t","e","m">>],
      PUT    |-> [action |-> update, op |-> <<"p","u","t","_","i","t","e","m">>],
      DELETE |-> [action |-> delete, op |-> <<"d","e","l","e","t","e","_","i","t","e","m">>] ]

\* a faulty variant of a request, in which the endpoint body runs although
\* check_permission raised; C26_StoreOperationOnlyWhenGranted tells it apart
proxy_request_unchecked(store, method, token, table_name, lookup_fails, op_result) ==
    LET user == get_current_user(token) IN
    IF user.status # 200 THEN [status |-> user.status, executed |-> <<>>]
    ELSE LET granted == check_permission(store, user.role_name, table_name,
                                         Endpoints[method].action, lookup_fails) IN
         [status   |-> IF granted # 200 THEN granted
                       ELSE IF op_result = "ClientError" THEN 500
                       ELSE IF op_result = "missing" /\ method = "GET" THEN 404
                       ELSE 200,
          executed |-> <<Call(Endpoints[method].op, table_name, <<>>)>>]

\* One request to /api/{table_name}/item: the dependencies run first and the
\* endpoint body only when check_permission returned True.  op_result is the
\* answer of the table operation: "ok", "missing" (GET only) or "ClientError".
proxy_request(store, method, token, table_name, lookup_fails, op_result) ==
    LET user == get_current_user(token) IN
    IF user.status # 200 THEN [status |-> user.status, executed |-> <<>>]
    ELSE LET granted == check_permission(store, user.role_name, table_name,
                                         Endpoints[method].action, lookup_fails) IN
         IF granted # 200 THEN [status |-> granted, executed |-> <<>>]
         ELSE [status   |-> IF op_result = "ClientError" THEN 500
                            ELSE IF op_result = "missing" /\ method = "GET" THEN 404
                            ELSE 200,
               executed |-> <<Call(Endpoints[method].op, table_name, <<>>)>>]

-----------------------------------------------------------------------------
(* Inputs *)

\* the longest role list a user item or a token carries
MaxRoles == 2

RECURSIVE SeqsUpTo(_, _)
SeqsUpTo(S, n) ==
    IF n = 0 THEN {<<>>}
    ELSE SeqsUpTo(S, n - 1) \cup
         { Append(q, x) : q \in { r \in SeqsUpTo(S, n - 1) : Len(r) = n - 1 }, x \in S }

\* the 'role_name' attribute of a user item: a list, a single string, or absent
RoleAttrs ==
    { ListAttr(l) : l \in SeqsUpTo(RoleNames, MaxRoles) }
        \cup { StrAttr(r) : r \in RoleNames } \cup { NoAttr }

Passwords == {"123", "wrong"}

UsersResponses ==
    { NoUser, UsersError } \cup { UserItem(pw, a) : pw \in Passwords, a \in RoleAttrs }

Customer == <<"C","u","s","t","o","m","e","r">>

star == <<"*">>

\* table names as typed: lower case, capitalized, double-quoted, other tables
TablesTyped == { customer, Customer, <<"\"">> \o customer \o <<"\"">>, customers, users }

StatementsOn(t) ==
    { Words(<<SELECT, star, FROM, t>>),
      Words(<<Lower(SELECT), star, Lower(FROM), t>>),
      Words(<<INSERT, INTO, t, <<"V","A","L","U","E">>, <<"{","}">> >>),
      Words(<<UPDATE, t, <<"S","E","T">>, <<"x","=","1">> >>),
      Words(<<DELETE, FROM, t>>) }

PartiqlLines ==
    UNION { StatementsOn(t) : t \in TablesTyped } \cup
    { Words(<<SELECT, star>>), Words(<<SELECT, star, FROM>>),
      Words(<<INSERT, customer>>), Words(<<INSERT, INTO>>),
      UPDATE, Words(<<DELETE, customer>>), Words(<<DELETE, FROM>>),
      Words(<<<<"D","R","O","P">>, customer>>),
      Words(<<SELECT, <<"\"","a">>, FROM, customer, <<"b","\"">>, FROM, users>>),
      exit, Upper(quit), <<" ", " ">>, <<>> }

table_name_flag == <<"-","-","t","a","b","l","e","-","n","a","m","e">>

key_flag == <<"-","-","k","e","y">>

request_items_flag == <<"-","-","r","e","q","u","e","s","t","-","i","t","e","m","s">>

aws == <<"a","w","s">>

list_tables == <<"l","i","s","t","-","t","a","b","l","e","s">>

create_table == <<"c","r","e","a","t","e","-","t","a","b","l","e">>

json_key == <<"'","{","\"","i","d","\"",":","{","\"","S","\"",":","\"","1","\"","}","}","'">>

describe_table == <<"d","e","s","c","r","i","b","e","-","t","a","b","l","e">>

update_table == <<"u","p","d","a","t","e","-","t","a","b","l","e">>

delete_table == <<"d","e","l","e","t","e","-","t","a","b","l","e">>

\* '{"customer":{}}': a --request-items value that names the table customer
request_items_customer ==
    <<"'","{","\"">> \o customer \o <<"\"",":","{","}","}","'">>

CommandsOn(t) ==
    { Words(<<dynamodb, v, table_name_flag, t>>) : v \in DOMAIN AWS_CLI_ACTION_MAP }

AwsCliLines ==
    UNION { CommandsOn(t) : t \in {customer, Customer, users} } \cup
    { Words(<<dynamodb, get_item, table_name_flag, customer, key_flag, json_key>>),
      Words(<<dynamodb, get_item, table_name_flag, customer, key_flag, <<"i","d","=","1">> >>),
      Words(<<dynamodb, scan>>),
      Words(<<dynamodb, scan, table_name_flag>>),
      Words(<<dynamodb, scan, Upper(table_name_flag), customer>>),
      Words(<<dynamodb, scan, table_name_flag, customer, table_name_flag, users>>),
      Words(<<dynamodb, scan, table_name_flag, customer, request_items_flag, users>>),
      Words(<<dynamodb, batch_get_item, request_items_flag, <<"'">> \o json_key \o <<"'">> >>),
      Words(<<dynamodb, list_tables>>),
      Words(<<dynamodb, create_table, table_name_flag, customer>>),
      Words(<<dynamodb, update_table, table_name_flag, customer>>),
      Words(<<dynamodb, delete_table, table_name_flag, customer>>),
      Words(<<dynamodb, describe_table, table_name_flag, customer>>),
      Words(<<dynamodb, batch_get_item, request_items_flag, request_items_customer>>),
      Words(<<dynamodb, batch_write_item, request_items_flag, request_items_customer>>),
      Words(<<aws, scan, table_name_flag, customer>>),
      Words(<<Upper(dynamodb), Upper(scan), table_name_flag, customer>>),
      Words(<<dynamodb, <<"\"">> \o scan \o <<"\"">>, table_name_flag, customer>>),
      Words(<<dynamodb, <<"s","c","\\","a","n">>, table_name_flag, customer>>),
      Words(<<dynamodb, scan, table_name_flag, <<"'">> \o customer>>),
      exit, <<>> }

Tokens ==
    { Token(v, sub, a) : v \in BOOLEAN, sub \in {<<>>, <<"reader1">>}, a \in RoleAttrs }

NoRequest == [method |-> "", token |-> Token(FALSE, <<>>, NoAttr), table_name |-> <<>>]

-----------------------------------------------------------------------------
(* The programs *)

Init ==
    /\ program \in {"auth_cli", "aws_cli", "api"}
    /\ pc = IF program = "api" THEN "serving" ELSE "login"
    /\ roles_table = RolesSeed
    /\ role_names = <<>>
    /\ permissions = {}
    /\ lookup_raised = "none"
    /\ command = <<>>
    /\ parse_result = <<>>
    /\ decision = "none"
    /\ executed = <<>>
    /\ printed = <<>>
    /\ request = NoRequest
    /\ response = 0

\* main of both clients up to the loop: authentication, then resolution.
\* fail_at is the role lookup that raises ClientError (0: none does).
main_login(store, users_response, password, fail_at) ==
    LET r == validar_usuario_cli(users_response, password) IN
    IF r = <<>> \/ r[1] = <<>>
    THEN [pc |-> "exit1", role_names |-> <<>>, permissions |-> {}, raised |-> "none",
          printed |-> <<Report("Autenticacao falhou", <<>>)>>]
    ELSE LET res == get_permissions_for_roles(store, r[1], fail_at) IN
         IF res.raised = "TypeError"
         THEN [pc |-> "crashed", role_names |-> r[1], permissions |-> {},
               raised |-> "TypeError", printed |-> <<Report("Traceback", <<>>)>>]
         ELSE [pc |-> "prompt", role_names |-> r[1], permissions |-> res.perms,
               raised |-> res.raised, printed |-> <<Report("Autenticado", <<>>)>>]

Login ==
    /\ program \in {"auth_cli", "aws_cli"}
    /\ pc = "login"
    /\ \E users_response \in UsersResponses, password \in Passwords, fail_at \in 0..MaxRoles :
         LET m == main_login(roles_table, users_response, password, fail_at) IN
         /\ pc' = m.pc
         /\ role_names' = m.role_names
         /\ permissions' = m.permissions
         /\ lookup_raised' = m.raised
         /\ printed' = m.printed
    /\ UNCHANGED <<program, roles_table, command, parse_result, decision, executed,
                   request, response>>

\* input(): the next line is read; the previous iteration's locals are dead
ReadLine ==
    /\ program \in {"auth_cli", "aws_cli"}
    /\ pc = "prompt"
    /\ \E line \in IF program = "auth_cli" THEN PartiqlLines ELSE AwsCliLines :
         command' = line
    /\ pc' = "line_read"
    /\ parse_result' = <<>>
    /\ decision' = "none"
    /\ executed' = <<>>
    /\ printed' = <<>>
    /\ UNCHANGED <<program, roles_table, role_names, permissions, lookup_raised,
                   request, response>>

\* input() raises EOFError: break
EndOfInput ==
    /\ program \in {"auth_cli", "aws_cli"}
    /\ pc = "prompt"
    /\ pc' = "done"
    /\ command' = <<>>
    /\ parse_result' = <<>>
    /\ decision' = "none"
    /\ executed' = <<>>
    /\ printed' = <<>>
    /\ UNCHANGED <<program, roles_table, role_names, permissions, lookup_raised,
                   request, response>>

Iterate(o) ==
    /\ pc' = o.pc
    /\ parse_result' = o.parse_result
    /\ decision' = o.decision
    /\ executed' = o.executed
    /\ printed' = o.printed
    /\ UNCHANGED <<program, roles_table, role_names, permissions, lookup_raised,
                   command, request, response>>

\* the rest of the loop body in auth_cli.py
PartiqlCommand ==
    /\ program = "auth_cli"
    /\ pc = "line_read"
    /\ Iterate(partiql_iteration(permissions, command))

\* the rest of the loop body in auth-cli/main.py
AwsCliCommand ==
    /\ program = "aws_cli"
    /\ pc = "line_read"
    /\ Iterate(aws_cli_iteration(permissions, command))

\* one request, handled whole: the dependencies, then the endpoint body
HttpRequest ==
    /\ program = "api"
    /\ pc = "serving"
    /\ \E method \in DOMAIN Endpoints, token \in Tokens,
          table_name \in {customer, Customer, users},
          lookup_fails \in BOOLEAN, op_result \in {"ok", "missing", "ClientError"} :
         LET r == proxy_request(roles_table, method, token, table_name,
                                lookup_fails, op_result) IN
         /\ request' = [method |-> method, token |-> token, table_name |-> table_name]
         /\ response' = r.status
         /\ executed' = r.executed
    /\ pc' = "responded"
    /\ UNCHANGED <<program, roles_table, role_names, permissions, lookup_raised,
                   command, parse_result, decision, printed>>

\* the response is sent; nothing of the request is kept for the next one
HttpRespond ==
    /\ program = "api"
    /\ pc = "responded"
    /\ pc' = "serving"
    /\ request' = NoRequest
    /\ response' = 0
    /\ executed' = <<>>
    /\ UNCHANGED <<program, roles_table, role_names, permissions, lookup_raised,
                   command, parse_result, decision, printed>>

Next ==
    \/ Login
    \/ ReadLine
    \/ EndOfInput
    \/ PartiqlCommand
    \/ AwsCliCommand
    \/ HttpRequest
    \/ HttpRespond

Spec == Init /\ [][Next]_vars

-----------------------------------------------------------------------------
(* The role store changes while a CLI session is open *)

\* Another client of the store rewrites the permission list of a role the
\* session's principal holds: the grants of 'reader' are revoked.
RolesTableUpdate ==
    /\ program \in {"auth_cli", "aws_cli"}
    /\ pc = "prompt"
    /\ "reader" \in Range(role_names)
    /\ roles_table = RolesSeed
    /\ roles_table' = [roles_table EXCEPT !["reader"] = ListAttr(<<>>)]
    /\ UNCHANGED <<program, pc, role_names, permissions, lookup_raised, command,
                   parse_result, decision, executed, printed, request, response>>

InitCli == Init /\ program \in {"auth_cli", "aws_cli"}

\* the login of a principal whose one role is 'reader', every lookup succeeding
LoginReader ==
    /\ Login
    /\ role_names' = <<"reader">>
    /\ lookup_raised' = "none"

NextCli ==
    \/ LoginReader
    \/ ReadLine
    \/ EndOfInput
    \/ PartiqlCommand
    \/ AwsCliCommand
    \/ RolesTableUpdate

\* a session whose user keeps typing: whenever the loop is at the prompt,
\* input() returns a line or raises EOFError
SpecCli ==
    /\ InitCli
    /\ [][NextCli]_vars
    /\ WF_vars(ReadLine \/ EndOfInput)

-----------------------------------------------------------------------------
(* Properties *)

CliPrograms == {"auth_cli", "aws_cli"}

\* a loop iteration that reached the decision
Decided == program \in CliPrograms /\ decision # "none"

\* the three-form rule of the decision engine for resource r and action a
ThreeFormRule(perms, r, a) ==
    GlobalWildcard \in perms \/ Perm(r, a) \in perms \/ WildPerm(r) \in perms

\* the parse of a line by the parser of the running client: <<>> when the
\* parser returns None or raises
Reparse(prog, line) ==
    IF prog = "auth_cli"
    THEN IF analisar_partiql(line).raised = "none" THEN analisar_partiql(line).value ELSE <<>>
    ELSE analisar_aws_cli_comando(line).value

\* the orderings of a role list
Orderings(names) ==
    { [i \in 1..Len(names) |-> names[f[i]]] :
        f \in { g \in [1..Len(names) -> 1..Len(names)] :
                  \A i, j \in 1..Len(names) : g[i] = g[j] => i = j } }

\* the stored roles a list names whose 'permissions' is a list (or missing)
ListTyped(store, r) == r \in DOMAIN store /\ store[r].type \in {"L", "absent"}

WellTyped(store, names) ==
    \A i \in 1..Len(names) : names[i] \in DOMAIN store => ListTyped(store, names[i])

\* the set union of the permission lists of the stored roles named
UnionOfLists(store, names) ==
    UNION { Range(PermissionsOf(store, r).val) :
              r \in { n \in Range(names) : ListTyped(store, n) } }

\* C1: for every permission set P, resource r and action a the decision is
\* Allow if and only if "*" is in P, or "<r>:<a>" is in P, or "<r>:*" is in P,
\* with the resource compared case-normalised as the decision engine requires.
C1_DecisionIsThreeFormRule ==
    Decided =>
        ((decision = "Allow") <=>
            ThreeFormRule(permissions, Lower(parse_result[2]), parse_result[1]))

\* C2: in both CLI sessions a store operation is performed for a submitted
\* command only if that command parses and the decision for its
\* (resource, action) is Allow; after a Deny or a parse failure there is none.
C2_ExecutedOnlyWhenAllowed ==
    program \in CliPrograms =>
        /\ executed # <<>> =>
             /\ Reparse(program, command) # <<>>
             /\ verificar_permissao_cli(permissions, Reparse(program, command)[2],
                                        Reparse(program, command)[1])
             /\ decision = "Allow"
             /\ Len(executed) = 1
             /\ executed[1].arg = IF program = "auth_cli" THEN command
                                  ELSE Reparse(program, command)[3]
        /\ (decision = "Deny" \/ parse_result = <<>>) => executed = <<>>

C2_Witness ==
    /\ program = "aws_cli"
    /\ pc = "prompt"
    /\ decision = "Allow"
    /\ executed # <<>>
    /\ executed[1].method = Replace(put_item, "-", "_")

\* C3: resource comparison is case-normalised in every rule: whatever the
\* letter case of the resource the parser returned, if lower(r):a or
\* lower(r):* is in P then the decision is Allow.
C3_ResourceCaseNormalised ==
    Decided =>
        ((\/ Perm(Lower(parse_result[2]), parse_result[1]) \in permissions
          \/ WildPerm(Lower(parse_result[2])) \in permissions)
            => decision = "Allow")

\* C4: the table that is authorized is the table the executed command acts
\* on: for every command that is allowed and executed, the table name given
\* to the decision is the table name the store operation is issued with.
C4_AuthorizedTableIsTargetTable ==
    (program = "aws_cli" /\ executed # <<>>) => executed[1].table = parse_result[2]

\* C5: if the role-store lookup fails for one of the principal's roles, the
\* resolution fails as a whole: the partial permission set is not returned
\* and no later decision of the session is Allow.
C5_FailedLookupNeverAllows ==
    (program \in CliPrograms /\ lookup_raised = "ClientError") => decision # "Allow"

\* C6: a corrupt role definition grants nothing: a principal whose roles all
\* have a 'permissions' attribute that is not a list is never allowed
\* anything, and the engine does not crash.
C6_CorruptRoleGrantsNothing ==
    (/\ program \in CliPrograms
     /\ role_names # <<>>
     /\ lookup_raised # "ClientError"
     /\ \A i \in 1..Len(role_names) :
            role_names[i] \in DOMAIN roles_table
            /\ roles_table[role_names[i]].type \in {"S", "N"})
        => (decision # "Allow" /\ pc # "crashed")

\* C7: authorization takes every role of the principal into account and does
\* not depend on role order: the decision is the same for every permutation
\* of the roles and is Allow whenever one of the roles grants the permission,
\* on the HTTP path as on the CLI paths.
C7_EveryRoleCountsInAnyOrder ==
    /\ (Decided /\ lookup_raised = "none") =>
          \A l \in Orderings(role_names) :
              get_permissions_for_roles(roles_table, l, 0).raised = "none" =>
                  (verificar_permissao_cli(get_permissions_for_roles(roles_table, l, 0).perms,
                                           parse_result[2], parse_result[1])
                     <=> decision = "Allow")
    /\ (program = "api" /\ pc = "responded" /\ response = 403
           /\ request.token.role.type = "L") =>
          \A i \in 1..Len(request.token.role.val) :
              check_permission(roles_table, request.token.role.val[i], request.table_name,
                               Endpoints[request.method].action, FALSE) # 200

\* C8: when every role-store lookup succeeds, get_permissions_for_roles
\* returns exactly the set union of the permission lists of the stored roles
\* named: duplicates collapse and the order of the names does not matter, so
\* role lists with the same permission content resolve to equal sets.
C8_ResolutionIsUnion ==
    (/\ program \in CliPrograms
     /\ pc \in {"prompt", "line_read", "done"}
     /\ lookup_raised = "none"
     /\ WellTyped(roles_table, role_names)) =>
        /\ permissions = UnionOfLists(roles_table, role_names)
        /\ \A l \in Orderings(role_names) :
               get_permissions_for_roles(roles_table, l, 0).perms = permissions

C8_Witness ==
    /\ program = "auth_cli"
    /\ pc = "prompt"
    /\ lookup_raised = "none"
    /\ role_names = <<"writer", "reader">>
    /\ Cardinality(permissions) = 3

\* C9: a role name the role store does not recognise contributes zero
\* permissions and is not an error: the resolution completes with the union
\* of the permissions of the known roles, and a principal holding a known
\* granting role and a dangling role is allowed what the known role grants.
C9_DanglingRoleIsHarmless ==
    /\ (/\ program \in CliPrograms
        /\ pc \in {"prompt", "line_read", "done"}
        /\ lookup_raised = "none"
        /\ WellTyped(roles_table, role_names)) =>
           permissions = UnionOfLists(roles_table,
                             SelectSeq(role_names, LAMBDA r : r \in DOMAIN roles_table))
    /\ (/\ program = "api"
        /\ pc = "responded"
        /\ response = 403
        /\ request.token.role.type = "L"
        /\ \E i \in 1..Len(request.token.role.val) :
               request.token.role.val[i] \notin DOMAIN roles_table) =>
           \A i \in 1..Len(request.token.role.val) :
               check_permission(roles_table, request.token.role.val[i], request.table_name,
                                Endpoints[request.method].action, FALSE) # 200

\* C10: every parsed command carries a lower-case resource: for every input
\* either parser accepts, the returned table name equals its own lower-casing.
C10_ParsedResourceIsLowerCase ==
    (program \in CliPrograms /\ parse_result # <<>>) =>
        parse_result[2] = Lower(parse_result[2])

\* a CLI loop iteration of program prog that got past the exit and blank-line
\* tests, in the state it leaves
Handled(prog) ==
    /\ program = prog
    /\ pc \in {"prompt", "done", "crashed"}
    /\ Strip(command) # <<>>
    /\ Lower(Strip(command)) \notin {exit, quit}

\* the whitespace-separated tokens of a statement, as typed
StatementTokens(line) == ReSplitWs(Strip(line))

\* the number of the first token that is the keyword kw in some letter case
\* (0: there is none)
FirstKeyword(tokens, kw) ==
    IF \E i \in 1..Len(tokens) : Upper(tokens[i]) = kw
    THEN CHOOSE i \in 1..Len(tokens) :
             /\ Upper(tokens[i]) = kw
             /\ \A j \in 1..(i - 1) : Upper(tokens[j]) # kw
    ELSE 0

\* the resource the statement dialect names: the token after position i,
\* quotes stripped, case-normalised; <<>> when there is no such token
ResourceAfter(tokens, i, act) ==
    IF i = 0 \/ i + 1 > Len(tokens) THEN <<>>
    ELSE <<act, Lower(Unquote(tokens[i + 1]))>>

\* the (action, resource) pair the statement dialect defines for a line
StatementMeaning(line) ==
    LET tokens == StatementTokens(line) IN
    IF Upper(tokens[1]) = SELECT THEN ResourceAfter(tokens, FirstKeyword(tokens, FROM), read)
    ELSE IF Upper(tokens[1]) = INSERT THEN ResourceAfter(tokens, FirstKeyword(tokens, INTO), write)
    ELSE IF Upper(tokens[1]) = UPDATE THEN ResourceAfter(tokens, 1, update)
    ELSE IF Upper(tokens[1]) = DELETE THEN ResourceAfter(tokens, FirstKeyword(tokens, FROM), delete)
    ELSE <<>>

\* C11: for a statement that starts with SELECT, INSERT, UPDATE or DELETE in
\* any letter case, analisar_partiql returns read, write, update or delete
\* and, as resource, the token after FROM (SELECT, DELETE), after INTO
\* (INSERT) or the second token (UPDATE), quotes stripped; no other token.
C11_StatementActionAndResource ==
    (Handled("auth_cli") /\ pc # "crashed"
        /\ (parse_result # <<>> \/ StatementMeaning(command) # <<>>)) =>
        parse_result = StatementMeaning(command)

\* the statement has no supported leading keyword, or lacks the companion
\* keyword its leading keyword requires
MissingKeyword(line) ==
    LET tokens == StatementTokens(line)
        k      == Upper(tokens[1])
    IN  \/ k \notin {SELECT, INSERT, UPDATE, DELETE}
        \/ k \in {SELECT, DELETE} /\ FirstKeyword(tokens, FROM) = 0
        \/ k = INSERT /\ FirstKeyword(tokens, INTO) = 0

\* C12: in the statement dialect a command whose leading keyword is not
\* SELECT, INSERT, UPDATE or DELETE, a SELECT or DELETE without FROM and an
\* INSERT without INTO are parse failures: no (action, resource) pair is
\* returned, no decision is taken and nothing is executed.
C12_MissingKeywordIsParseFailure ==
    (Handled("auth_cli") /\ MissingKeyword(command)) =>
        /\ pc = "prompt"
        /\ analisar_partiql(command).value = <<>>
        /\ parse_result = <<>>
        /\ decision = "none"
        /\ executed = <<>>
        /\ Len(printed) = 1
        /\ printed[1].kind \in {"ValueError", "unsupported"}

C12_Witness ==
    /\ Handled("auth_cli")
    /\ MissingKeyword(command)
    /\ Upper(StatementTokens(command)[1]) = DELETE
    /\ GlobalWildcard \in permissions
\* C13: parsing never crashes: for every command text, in either dialect,
\* the parser returns a parsed command or a failure value and no exception
\* escapes it ("SELECT * FROM", "INSERT INTO", "DELETE FROM" and "UPDATE"
\* included); after such an input the session awaits the next command.
C13_ParsingNeverCrashes ==
    (Handled("auth_cli") \/ Handled("aws_cli")) =>
        /\ pc = "prompt"
        /\ program = "auth_cli" =>
               analisar_partiql(command).raised # "IndexError"
\* the shell-style tokens of a verb-dialect command
CommandTokens(line) == split_cli_command(Strip(line))

\* the command starts with the namespace marker and carries a verb
HasVerb(line) ==
    /\ Len(CommandTokens(line)) >= 2
    /\ Lower(CommandTokens(line)[1]) = dynamodb

VerbOf(line) == Lower(CommandTokens(line)[2])

\* the closed verb-to-action map of the verb dialect
ClosedVerbMap(verb) ==
    IF verb \in {get_item, query, scan, batch_get_item} THEN read
    ELSE IF verb \in {put_item, batch_write_item} THEN write
    ELSE IF verb = update_item THEN update
    ELSE IF verb = delete_item THEN delete
    ELSE <<>>

\* C14: the verb-to-action map is closed: get-item, query, scan and
\* batch-get-item are read, put-item and batch-write-item write, update-item
\* update, delete-item delete; a command that starts with "dynamodb",
\* whatever its number of tokens, and has any other verb gets the
\* unsupported-action parse error and is neither authorized nor executed.
C14_ClosedVerbMap ==
    Handled("aws_cli") =>
        /\ parse_result # <<>> =>
               (HasVerb(command) /\ parse_result[1] = ClosedVerbMap(VerbOf(command)))
        /\ (HasVerb(command) /\ ClosedVerbMap(VerbOf(command)) = <<>>) =>
               /\ parse_result = <<>>
               /\ decision = "none"
               /\ executed = <<>>
               /\ Len(printed) = 1
               /\ printed[1].kind = "unsupported"

\* some "--table-name value" pair follows the verb: a token that converts to
\* the TableName parameter and is not the last token
NamesTable(token) ==
    /\ StartsWith(token, <<"-", "-">>)
    /\ to_camel_case(Replace(LStripSet(token, {"-"}), "-", "_")) = TableName

HasTableFlagWithValue(line) ==
    \E i \in 3..(Len(CommandTokens(line)) - 1) : NamesTable(CommandTokens(line)[i])

\* C15: in the verb dialect the kind of parse error follows the defect: a
\* first token other than the namespace marker is a syntax error; the
\* namespace marker and a known verb without a table-name flag that carries
\* a value ("dynamodb scan", or --table-name as last token) is the
\* missing-resource error; no parsed command is returned in either case.
C15_ParseErrorKindFollowsDefect ==
    Handled("aws_cli") =>
        /\ (CommandTokens(command) # <<>> /\ Lower(CommandTokens(command)[1]) # dynamodb) =>
               /\ parse_result = <<>>
               /\ Len(printed) = 1
               /\ printed[1].kind = "syntax"
        /\ (/\ HasVerb(command)
            /\ ClosedVerbMap(VerbOf(command)) # <<>>
            /\ ~HasTableFlagWithValue(command)) =>
               /\ parse_result = <<>>
               /\ Len(printed) = 1
               /\ printed[1].kind = "table-name"
\* the "--flag-name value" pairs of a command, read left to right from token
\* number i: a token that starts with "--" and is followed by a token
RECURSIVE FlagPairs(_, _)
FlagPairs(tokens, i) ==
    IF i > Len(tokens) THEN <<>>
    ELSE IF ~StartsWith(tokens[i], <<"-", "-">>) THEN FlagPairs(tokens, i + 1)
    ELSE IF i = Len(tokens) THEN <<>>
    ELSE <<[flag |-> tokens[i], value |-> tokens[i + 1]]>> \o FlagPairs(tokens, i + 2)

\* the parameter name of a hyphenated lower-case flag: the leading dashes
\* dropped, each word with its first letter in upper case, the hyphens removed
CamelWord(w) == IF w = <<>> THEN <<>> ELSE <<UpperChar(Head(w))>> \o Tail(w)

ParameterName(flag) ==
    LET ws == SplitOn(LStripSet(flag, {"-"}), "-", <<>>)
    IN  Concat([i \in 1..Len(ws) |-> CamelWord(ws[i])])

\* the parameter name the parser gives a flag in any spelling
ConvertedName(flag) == to_camel_case(Replace(LStripSet(flag, {"-"}), "-", "_"))

StructuredFlagNames ==
    { <<"-", "-">> \o Replace(f, "_", "-") : f \in StructuredFlags }

\* the payload value of a pair: the decoded JSON of a structured flag whose
\* value is valid JSON, the raw string otherwise
PayloadValue(pair) ==
    IF pair.flag \in StructuredFlagNames /\ IsJson(pair.value)
    THEN [type |-> "json", val |-> Compact(pair.value, FALSE)]
    ELSE [type |-> "str", val |-> pair.value]

\* C16 as stated: every "--flag-name value" pair after the verb is a payload
\* entry keyed by the converted parameter name, with the decoded JSON
\* (structured flags, valid JSON) or the raw string as value, and the parsed
\* resource is the (case-normalised) value of the table-name flag.
C16_EveryPairIsAnEntry ==
    (Handled("aws_cli") /\ parse_result # <<>>) =>
        LET pairs == FlagPairs(CommandTokens(command), 3) IN
        \A i \in 1..Len(pairs) :
            pairs[i].flag = Lower(pairs[i].flag) =>
                /\ ParameterName(pairs[i].flag) \in DOMAIN parse_result[3]
                /\ parse_result[3][ParameterName(pairs[i].flag)] = PayloadValue(pairs[i])
                /\ pairs[i].flag = table_name_flag =>
                       parse_result[2] = Lower(pairs[i].value)

\* C16, amended: the payload has one entry per converted parameter name; a
\* pair is the entry of its name unless a later pair converts to the same
\* name, which then replaces it; values are decoded or raw as above, no entry
\* comes from anything but a pair, and the parsed resource is the lower-cased
\* value of the TableName entry.
C16_PairsBecomeEntries ==
    (Handled("aws_cli") /\ parse_result # <<>>) =>
        LET pairs == FlagPairs(CommandTokens(command), 3) IN
        /\ \A i \in 1..Len(pairs) :
               (/\ pairs[i].flag = Lower(pairs[i].flag)
                /\ \A j \in (i + 1)..Len(pairs) :
                       ConvertedName(pairs[j].flag) # ConvertedName(pairs[i].flag)) =>
                   /\ ParameterName(pairs[i].flag) \in DOMAIN parse_result[3]
                   /\ parse_result[3][ParameterName(pairs[i].flag)] = PayloadValue(pairs[i])
        /\ \A k \in DOMAIN parse_result[3] :
               \E i \in 1..Len(pairs) : ConvertedName(pairs[i].flag) = k
        /\ TableName \in DOMAIN parse_result[3]
        /\ parse_result[2] = Lower(parse_result[3][TableName].val)

C16_Witness ==
    /\ Handled("aws_cli")
    /\ parse_result # <<>>
    /\ Len(FlagPairs(CommandTokens(command), 3)) = 2
    /\ FlagPairs(CommandTokens(command), 3)[1].flag = table_name_flag
    /\ FlagPairs(CommandTokens(command), 3)[2].flag = table_name_flag
    /\ parse_result[2] = users
\* C17: whenever a command is denied, the required permission reported is
\* exactly "<lower-case resource>:<action>", the string the decision tested
\* for an exact match.
C17_DenialReportsRequiredPermission ==
    ((Handled("auth_cli") \/ Handled("aws_cli")) /\ decision = "Deny") =>
        /\ Len(printed) = 1
        /\ printed[1].kind = "ERRO DE AUTORIZACAO"
        /\ printed[1].detail = Perm(Lower(parse_result[2]), parse_result[1])
\* the line read is a command (neither blank nor exit/quit) for which the
\* parser of the running client gives no parsed command
IsParseFailure(prog, line) ==
    /\ Strip(line) # <<>>
    /\ Lower(Strip(line)) \notin {exit, quit}
    /\ Reparse(prog, line) = <<>>

\* C18: on a parse failure the permission system is not touched: no role is
\* looked up and no decision is evaluated for the command, the role list and
\* the permission set of the session stay as they are, and the session goes
\* straight to awaiting the next command.
C18_ParseFailureTouchesNothing ==
    [][ (program \in CliPrograms /\ pc = "line_read" /\ IsParseFailure(program, command)) =>
            /\ pc' = "prompt"
            /\ decision' = "none"
            /\ executed' = <<>>
            /\ UNCHANGED <<roles_table, role_names, permissions, lookup_raised>> ]_vars
\* the decision the current content of the role store gives the session's
\* roles for the parsed command
DecisionOfStore ==
    IF verificar_permissao_cli(get_permissions_for_roles(roles_table, role_names, 0).perms,
                               parse_result[2], parse_result[1])
    THEN "Allow" ELSE "Deny"

\* C19: authorization follows the current role-permission state: when the
\* permission list of a role changes in the store while a session is open,
\* from some point on every decision for a principal holding the role is the
\* one the updated list gives; the set fetched earlier is not used forever.
C19_DecisionsFollowTheStore ==
    <>[]((Decided /\ lookup_raised = "none") => decision = DecisionOfStore)
\* resource names that differ, prefixes and substrings of one another included
ResourceNames == {<<"c","u","s","t","o","m">>, customer, customers, Customer, users}

\* C20: resource-wildcard matching is resource-exact: for distinct resources
\* r1 and r2, one being a prefix or substring of the other included, the
\* permission set {"<r1>:*"} gives Deny for every action on r2.
C20_WildcardIsResourceExact ==
    (Decided /\ \E r1 \in ResourceNames : permissions = {WildPerm(r1)}) =>
        /\ \A r1 \in ResourceNames :
               (permissions = {WildPerm(r1)} /\ parse_result[2] # r1) => decision = "Deny"
        /\ \A r1, r2 \in ResourceNames, a \in Actions :
               r1 # r2 => ~verificar_permissao_cli({WildPerm(r1)}, r2, a)

C20_Witness ==
    /\ Decided
    /\ permissions = {WildPerm(customer)}
    /\ parse_result[2] = customers
    /\ decision = "Deny"
    /\ executed = <<>>

\* a request that passed get_current_user and whose role is stored with a
\* list of permissions, in the state the endpoint leaves
RoleOfRequest == get_current_user(request.token).role_name

HttpChecked ==
    /\ program = "api"
    /\ pc = "responded"
    /\ get_current_user(request.token).status = 200
    /\ RoleOfRequest \in DOMAIN roles_table
    /\ roles_table[RoleOfRequest].type = "L"

\* C21: the HTTP-path check_permission applies the three-form rule of the
\* decision engine: for every role permission list P, table t and action a it
\* grants if and only if P contains "*", "<t>:<a>" or "<t>:*", and raises 403
\* otherwise; a role holding only "<t>:*" is granted every action on t.
C21_HttpThreeFormRule ==
    HttpChecked =>
        LET P == Range(roles_table[RoleOfRequest].val)
            t == request.table_name
            a == Endpoints[request.method].action
        IN  /\ check_permission(roles_table, RoleOfRequest, t, a, FALSE) = 200
                  <=> ThreeFormRule(P, t, a)
            /\ ThreeFormRule(P, t, a) => response # 403
            /\ ~ThreeFormRule(P, t, a) => (response \in {403, 500} /\ executed = <<>>)

\* the verbs of the six single-table CRUD commands
CrudVerbs == {get_item, scan, query, put_item, update_item, delete_item}

\* a permission string that names resource t: "<t>:<anything>"
NamesResource(p, t) == StartsWith(p, t \o <<":">>)

\* what the session reports for a command on table t with action a
ReportedFor(t, a) ==
    /\ Len(printed) = 1
    /\ printed[1].kind = IF ThreeFormRule(permissions, t, a)
                         THEN "Autorizado" ELSE "ERRO DE AUTORIZACAO"
    /\ (GlobalWildcard \notin permissions
          /\ \A p \in permissions : ~NamesResource(p, t)) =>
           printed[1].kind = "ERRO DE AUTORIZACAO"
    /\ GlobalWildcard \in permissions => printed[1].kind = "Autorizado"

\* C22: end to end, for every authenticated principal and every well-formed
\* CRUD command on a table t (the four statement forms; the get-item, scan,
\* query, put-item, update-item and delete-item verb forms) the session
\* reports "Autorizado" exactly when the resolved permission set allows
\* (t, action) and "ERRO DE AUTORIZACAO" otherwise; without a grant naming
\* the table and without "*" it is denied, with "*" it is authorized.
C22_EndToEndReport ==
    /\ Handled("auth_cli") =>
          \A t \in TablesTyped :
              command \in StatementsOn(t) =>
                  ReportedFor(Lower(Unquote(t)), StatementMeaning(command)[1])
    /\ Handled("aws_cli") =>
          \A t \in {customer, Customer, users}, v \in CrudVerbs :
              command = Words(<<dynamodb, v, table_name_flag, t>>) =>
                  ReportedFor(Lower(t), ClosedVerbMap(v))

\* the authentication fails: a store error during the lookup, an unknown
\* username, or a wrong password
AuthenticationFails(users_response, password) ==
    \/ users_response.kind = "ClientError"
    \/ users_response.kind = "none"
    \/ users_response.kind = "item" /\ users_response.password # password

\* C23: if authentication fails (unknown username, wrong password, store
\* error during the lookup) the session reports the authentication failure
\* and terminates: it never reports a successful authentication, resolves no
\* permissions and parses, authorizes and executes none of the commands that
\* follow in the input.
C23_FailedLoginEndsSession ==
    (program \in CliPrograms /\ pc = "exit1") =>
        /\ \A users_response \in UsersResponses, password \in Passwords,
              fail_at \in 0..MaxRoles :
               AuthenticationFails(users_response, password) =>
                   LET m == main_login(roles_table, users_response, password, fail_at) IN
                   /\ m.pc = "exit1"
                   /\ m.printed = <<Report("Autenticacao falhou", <<>>)>>
                   /\ m.permissions = {}
                   /\ m.raised = "none"
        /\ printed = <<Report("Autenticacao falhou", <<>>)>>
        /\ role_names = <<>>
        /\ permissions = {}
        /\ lookup_raised = "none"
        /\ command = <<>>
        /\ parse_result = <<>>
        /\ decision = "none"
        /\ executed = <<>>
        /\ ~ENABLED Next

C23_Witness ==
    /\ program = "aws_cli"
    /\ pc = "exit1"
    /\ printed = <<Report("Autenticacao falhou", <<>>)>>

\* the batch command of verb v that names the table customer only inside
\* --request-items
BatchCommand(v) == Words(<<dynamodb, v, request_items_flag, request_items_customer>>)

\* C24: a batch command that names its table only inside --request-items is
\* authorized against that table: batch-get-item on customer is reported as
\* authorized for every principal allowed (customer, read); batch-write-item
\* on customer is reported as authorized for every principal allowed
\* (customer, write) and as an authorization error for a principal allowed
\* only (customer, read).
C24_BatchAuthorizedByRequestItems ==
    Handled("aws_cli") =>
        /\ (command = BatchCommand(batch_get_item)
              /\ ThreeFormRule(permissions, customer, read)) =>
               (Len(printed) = 1 /\ printed[1].kind = "Autorizado")
        /\ (command = BatchCommand(batch_write_item)
              /\ ThreeFormRule(permissions, customer, write)) =>
               (Len(printed) = 1 /\ printed[1].kind = "Autorizado")
        /\ (command = BatchCommand(batch_write_item)
              /\ ThreeFormRule(permissions, customer, read)
              /\ ~ThreeFormRule(permissions, customer, write)) =>
               (Len(printed) = 1 /\ printed[1].kind = "ERRO DE AUTORIZACAO"
                  /\ executed = <<>>)

\* the table-management commands: those that change tables, those that only
\* read metadata
TableChangeCommands ==
    { Words(<<dynamodb, v, table_name_flag, customer>>) :
        v \in {create_table, update_table, delete_table} }

MetadataCommands ==
    { Words(<<dynamodb, list_tables>>),
      Words(<<dynamodb, describe_table, table_name_flag, customer>>) }

\* the session of a reader or writer principal, every role lookup succeeding
ReaderOrWriter ==
    /\ role_names \in {<<"reader">>, <<"writer">>}
    /\ lookup_raised = "none"

\* C25: table-management commands are decided by authorization: create-table,
\* update-table and delete-table are reported as authorized for a principal
\* holding the global wildcard and as "ERRO DE AUTORIZACAO" for reader and
\* writer principals; list-tables and describe-table are reported as
\* authorized for reader and writer principals.
C25_TableManagementIsAuthorized ==
    Handled("aws_cli") =>
        /\ (command \in TableChangeCommands /\ GlobalWildcard \in permissions) =>
               (Len(printed) = 1 /\ printed[1].kind = "Autorizado")
        /\ (command \in TableChangeCommands /\ ReaderOrWriter) =>
               (Len(printed) = 1 /\ printed[1].kind = "ERRO DE AUTORIZACAO"
                  /\ executed = <<>>)
        /\ (command \in MetadataCommands /\ ReaderOrWriter) =>
               (Len(printed) = 1 /\ printed[1].kind = "Autorizado")

\* the store operation each endpoint performs, and the action it requires
OperationOf ==
    [ GET    |-> Replace(get_item, "-", "_"),
      POST   |-> Replace(put_item, "-", "_"),
      PUT    |-> Replace(put_item, "-", "_"),
      DELETE |-> Replace(delete_item, "-", "_") ]

ActionOf == [ GET |-> read, POST |-> write, PUT |-> update, DELETE |-> delete ]

\* C26: in the HTTP proxy each endpoint performs its store operation on table
\* t (get_item for GET, put_item for POST and PUT, delete_item for DELETE)
\* only in a request in which check_permission returned True for t and the
\* endpoint's action; when the token is rejected (401), the permission is
\* missing or the role unknown (403), or the role-store lookup fails (500),
\* no store operation on t is performed in that request.
C26_StoreOperationOnlyWhenGranted ==
    (program = "api" /\ pc = "responded") =>
        LET user == get_current_user(request.token)
            t    == request.table_name
            a    == ActionOf[request.method]
        IN  /\ executed # <<>> =>
                  /\ user.status = 200
                  /\ check_permission(roles_table, user.role_name, t, a, FALSE) = 200
                  /\ executed = <<Call(OperationOf[request.method], t, <<>>)>>
            /\ response \in {401, 403} => executed = <<>>
            /\ user.status # 200 => (response = 401 /\ executed = <<>>)
            /\ (user.status = 200
                  /\ check_permission(roles_table, user.role_name, t, a, FALSE) # 200) =>
                   (response \in {403, 500} /\ executed = <<>>)
            /\ \A op_result \in {"ok", "missing", "ClientError"} :
                   LET r == proxy_request(roles_table, request.method, request.token,
                                          t, TRUE, op_result)
                   IN  r.executed = <<>> /\ r.status \in {401, 500}

C26_Witness ==
    /\ program = "api"
    /\ pc = "responded"
    /\ request.method = "DELETE"
    /\ response = 200
    /\ executed = <<Call(Replace(delete_item, "-", "_"), customer, <<>>)>>

\* the verb main re-derives for the dispatch: the second whitespace-separated
\* field of the raw command text, lower-cased
DispatchVerb(line) == Lower(StrSplit(Strip(line))[2])

\* the canonical action of a client method (<<>>: none)
ActionOfMethod(method) ==
    IF \E v \in DOMAIN AWS_CLI_ACTION_MAP : Replace(v, "-", "_") = method
    THEN ClosedVerbMap(CHOOSE v \in DOMAIN AWS_CLI_ACTION_MAP : Replace(v, "-", "_") = method)
    ELSE <<>>

\* C27: in the verb-dialect session the store operation that is executed is
\* the one that was authorized: the verb used for dispatch and the verb the
\* parser mapped to a canonical action always name the same operation, so
\* for every command text, however quoted or escaped, the authorized
\* operation is the one invoked and no operation whose canonical action
\* differs from the authorized action is invoked on the store.
C27_DispatchedVerbIsAuthorizedVerb ==
    (Handled("aws_cli") /\ parse_result # <<>>) =>
        /\ DispatchVerb(command) = VerbOf(command)
        /\ decision = "Allow" =>
               /\ Len(executed) = 1
               /\ executed[1].method = Replace(VerbOf(command), "-", "_")
        /\ \A i \in 1..Len(executed) :
               ActionOfMethod(executed[i].method) = parse_result[1]
====
